---- MODULE Spec2Model ----
(***************************************************************************)
(* Model of the identity / follow-graph / tag-store layer of               *)
(* realworld-v1-rust-actix-web-diesel.                                     *)
(*                                                                         *)
(* Strings are modelled as finite sequences of small naturals, Option<T>   *)
(* as a sequence of length at most one (None = <<>>, Some(v) = <<v>>),     *)
(* UUIDs as the position of the row in its table (rows are never deleted   *)
(* from users or tags), and the created_at / updated_at columns are left   *)
(* out (no operation modelled here reads them).                            *)
(***************************************************************************)
EXTENDS Integers, Sequences, FiniteSets, Bags, TLC

VARIABLES users, follows, tags, pc, last

vars == <<users, follows, tags, pc, last>>

(* ------------------------------ domains ------------------------------- *)

Emails == {1, 2}
Usernames == {1, 2}
PwChars == {1}
Texts == {1}

NumSalts == 1
Salts == 1..NumSalts

\* the most fields one update request of the model provides
MaxChanged == 1

\* request handlers running at the same time
NumWorkers == 2
Workers == 1..NumWorkers

\* tag names, the articles of the store, and the article ids a request can
\* carry: every article, and one that does not exist
TagNames == {1, 2}
Articles == {1, 2}
RequestArticles == Articles \cup {0}

\* rows the tags table of the model holds at most, and records per insert
MaxTagRows == 6
MaxNewTags == 2

\* usernames a request path can name: every username, and one nobody has
PathNames == Usernames \cup {0}

None == <<>>
Some(v) == <<v>>
Opt(S) == {None} \cup {Some(v) : v \in S}

\* plaintext passwords a caller can send: the empty string and one-character strings
Passwords == {<<>>} \cup {<<c>> : c \in PwChars}

Ok(v) == [kind |-> "Ok", val |-> v]
Err(k) == [kind |-> k, val |-> None]

(* ------------------------- credential service ------------------------- *)

\* utils::hasher::hash_password: salted one-way hash; the result carries a
\* marker (0, never a password character) and the salt, so it is never a
\* plaintext of Passwords; the empty password is rejected.
hash_password(naive_password, salt) ==
  IF naive_password = <<>> THEN Err("CredentialError")
  ELSE Ok(<<0, salt>> \o naive_password)

\* utils::hasher::verify: fails closed on a mismatch and on a malformed hash
verify(naive_password, hashed) ==
  IF /\ Len(hashed) >= 2
     /\ hashed[1] = 0
     /\ SubSeq(hashed, 3, Len(hashed)) = naive_password
  THEN Ok(TRUE)
  ELSE Err("InvalidCredentials")

\* User::generate_token: token::generate(self.id, now)?
generate_token(user, key_ok) ==
  IF key_ok THEN Ok(<<user.id>>) ELSE Err("TokenError")

(* ---------------------------- users table ----------------------------- *)

UserIdx(us) == 1..Len(us)

\* Self::by_email(email): the rows whose email matches
by_email(us, email) == {i \in UserIdx(us) : us[i].email = email}

\* Self::by_username(username): the rows whose username matches
by_username(us, username) == {i \in UserIdx(us) : us[i].username = username}

\* the unique constraints of users(email unique, username unique): the error
\* kinds a write can be refused with when row `skip` (0: none) takes the
\* given email and username
UniqueViolations(us, skip, email, username) ==
  {"DuplicateEmail" : i \in by_email(us, email) \ {skip}}
    \cup {"DuplicateUsername" : i \in by_username(us, username) \ {skip}}

\* diesel::insert_into(users::table).values(&record).get_result::<User>(conn)
\* kinds: the outcomes the store can answer with (one of the violated
\* constraints, whichever index is checked first)
users_insert(us, record) ==
  LET bad == UniqueViolations(us, 0, record.email, record.username)
      row == [id |-> Len(us) + 1, email |-> record.email,
              username |-> record.username, password |-> record.password,
              bio |-> None, image |-> None]
  IN IF bad # {} THEN [users |-> us, kinds |-> bad, row |-> None]
     ELSE [users |-> Append(us, row), kinds |-> {"Ok"}, row |-> Some(row)]

(* --------------------------- User Directory --------------------------- *)

\* signup with the two columns of the inserted record swapped
signup_swapped(us, email, username, naive_password, salt, key_ok) ==
  LET hashed_password == hash_password(naive_password, salt)
  IN IF hashed_password.kind # "Ok"
     THEN [users |-> us, kinds |-> {hashed_password.kind}]
     ELSE LET record == [email |-> username, username |-> email,
                         password |-> hashed_password.val]
              ins == users_insert(us, record)
          IN IF ins.kinds # {"Ok"}
             THEN [users |-> us, kinds |-> ins.kinds]
             ELSE [users |-> ins.users,
                   kinds |-> {generate_token(ins.row[1], key_ok).kind}]

\* User::signup
signup(us, email, username, naive_password, salt, key_ok) ==
  LET hashed_password == hash_password(naive_password, salt)
  IN IF hashed_password.kind # "Ok"
     THEN [users |-> us, kinds |-> {hashed_password.kind}]
     ELSE LET record == [email |-> email, username |-> username,
                         password |-> hashed_password.val]
              ins == users_insert(us, record)
          IN IF ins.kinds # {"Ok"}
             THEN [users |-> us, kinds |-> ins.kinds]
             ELSE [users |-> ins.users,
                   kinds |-> {generate_token(ins.row[1], key_ok).kind}]

\* User::signin
signin(us, email, naive_password, key_ok) ==
  LET found == by_email(us, email)
  IN IF found = {} THEN Err("NotFound")
     ELSE LET user == us[CHOOSE i \in found : TRUE]
              ok == verify(naive_password, user.password)
          IN IF ok.kind # "Ok" THEN Err(ok.kind)
             ELSE IF generate_token(user, key_ok).kind # "Ok"
                  THEN Err("TokenError")
                  ELSE Ok(user)

\* struct UpdateUser: every field optional
UpdateUser ==
  [email : Opt(Emails), username : Opt(Usernames), password : Opt(Passwords),
   image : Opt(Texts), bio : Opt(Texts)]

UpdateFields == {"email", "username", "password", "image", "bio"}

\* the fields a changeset provides
Provided(changeset) == {f \in UpdateFields : changeset[f] # None}

\* the changesets a request of the model sends
UpdateInputs == {cs \in UpdateUser : Cardinality(Provided(cs)) <= MaxChanged}

\* AsChangeset on an Option field: None leaves the column alone
Changed(old, opt) == IF opt = None THEN old ELSE opt[1]

\* a changeset that writes NULL for an absent field (treat_none_as_null)
ChangedNullable_none_as_null(old, opt) == opt

\* AsChangeset on an Option<String> field of a nullable column
ChangedNullable(old, opt) == IF opt = None THEN old ELSE opt

\* User::update
update(us, user_id, changeset) ==
  IF /\ changeset.email = None /\ changeset.username = None
     /\ changeset.password = None /\ changeset.image = None
     /\ changeset.bio = None
  THEN [users |-> us, kinds |-> {"StorageError"}]
  ELSE IF user_id \notin UserIdx(us)
  THEN [users |-> us, kinds |-> {"NotFound"}]
  ELSE LET old == us[user_id]
           new == [id |-> old.id,
                   email |-> Changed(old.email, changeset.email),
                   username |-> Changed(old.username, changeset.username),
                   password |-> Changed(old.password, changeset.password),
                   image |-> ChangedNullable(old.image, changeset.image),
                   bio |-> ChangedNullable(old.bio, changeset.bio)]
           bad == UniqueViolations(us, user_id, new.email, new.username)
       IN IF bad # {} THEN [users |-> us, kinds |-> bad]
          ELSE [users |-> [us EXCEPT ![user_id] = new], kinds |-> {"Ok"}]

(* ---------------------------- Follow Graph ---------------------------- *)

Edge(follower_id, followee_id) ==
  [follower_id |-> follower_id, followee_id |-> followee_id]

\* the same insert without the unique(follower_id, followee_id) constraint
Follow_create_unconstrained(fs, params) ==
  [follows |-> fs (+) SetToBag({Edge(params.follower_id, params.followee_id)}),
   kind |-> "Ok"]

\* Follow::create: one insert into follows, refused by the table's
\* unique(follower_id, followee_id) constraint when the edge is there
Follow_create(fs, params) ==
  LET e == Edge(params.follower_id, params.followee_id)
  IN IF BagIn(e, fs) THEN [follows |-> fs, kind |-> "AlreadyFollowing"]
     ELSE [follows |-> fs (+) SetToBag({e}), kind |-> "Ok"]

\* Follow::delete: one delete of the rows of that pair; deleting none is Ok
Follow_delete(fs, params) ==
  LET e == Edge(params.follower_id, params.followee_id)
      keep == BagToSet(fs) \ {e}
  IN [follows |-> [x \in keep |-> fs[x]], kind |-> "Ok",
      deleted |-> CopiesIn(e, fs)]

\* User::is_following
is_following(fs, self, followee_id) ==
  \E e \in BagToSet(fs) :
    e.followee_id = followee_id /\ e.follower_id = self.id

Profile(user, following) ==
  [username |-> user.username, bio |-> user.bio, image |-> user.image,
   following |-> following]

\* follow that inserts the edge with follower and followee exchanged
follow_swapped(fs, self, followee) ==
  LET r == Follow_create(fs, [follower_id |-> followee.id,
                              followee_id |-> self.id])
  IN IF r.kind # "Ok" THEN [follows |-> r.follows, kind |-> r.kind,
                            profile |-> None]
     ELSE [follows |-> r.follows, kind |-> "Ok",
           profile |-> Some(Profile(self, TRUE))]

\* follow that drops the result of Follow::create
follow_unchecked(fs, self, followee) ==
  LET r == Follow_create(fs, [follower_id |-> self.id,
                              followee_id |-> followee.id])
  IN [follows |-> r.follows, kind |-> "Ok",
      profile |-> Some(Profile(self, TRUE))]

\* User::follow, after the followee was found
follow(fs, self, followee) ==
  LET r == Follow_create(fs, [follower_id |-> self.id,
                              followee_id |-> followee.id])
  IN IF r.kind # "Ok" THEN [follows |-> r.follows, kind |-> r.kind,
                            profile |-> None]
     ELSE [follows |-> r.follows, kind |-> "Ok",
           profile |-> Some(Profile(self, TRUE))]

\* unfollow that reports an error when no row was deleted
unfollow_strict(fs, self, followee) ==
  LET r == Follow_delete(fs, [followee_id |-> followee.id,
                              follower_id |-> self.id])
  IN IF r.deleted = 0 THEN [follows |-> fs, kind |-> "NotFollowing",
                            profile |-> None, deleted |-> 0]
     ELSE [follows |-> r.follows, kind |-> "Ok",
           profile |-> Some(Profile(self, FALSE)), deleted |-> r.deleted]

\* User::unfollow, after the followee was found
unfollow(fs, self, followee) ==
  LET r == Follow_delete(fs, [followee_id |-> followee.id,
                              follower_id |-> self.id])
  IN IF r.kind # "Ok" THEN [follows |-> r.follows, kind |-> r.kind,
                            profile |-> None, deleted |-> r.deleted]
     ELSE [follows |-> r.follows, kind |-> "Ok",
           profile |-> Some(Profile(self, FALSE)), deleted |-> r.deleted]

\* User::fetch_profile
fetch_profile(fs, self, folowee_id) ==
  Profile(self, is_following(fs, self, folowee_id))

\* auth::get_current_user(&req)?: the authenticated user of the request,
\* an error for a request that carries none
get_current_user(us, viewer) ==
  IF viewer = None THEN Err("Unauthorized") ELSE Ok(us[viewer[1]])

\* controllers::follow / controllers::unfollow up to the lookup of the
\* followee in User::follow / User::unfollow
begin(us, viewer, username, conn_ok) ==
  IF ~conn_ok THEN Err("PoolError")
  ELSE LET current_user == get_current_user(us, viewer)
       IN IF current_user.kind # "Ok" THEN Err(current_user.kind)
          ELSE LET found == by_username(us, username)
               IN IF found = {} THEN Err("NotFound")
                  ELSE Ok([self |-> current_user.val,
                           followee |-> us[CHOOSE i \in found : TRUE]])

\* ShowProfileUsecase::handle: finds the subject by username and composes
\* the profile with User::fetch_profile
handle(us, fs, current_user, username) ==
  LET found == by_username(us, username)
  IN IF found = {} THEN Err("NotFound")
     ELSE Ok(fetch_profile(fs, current_user,
                           us[CHOOSE i \in found : TRUE].id))

\* controllers::show
show(us, fs, viewer, username) ==
  LET current_user == get_current_user(us, viewer)
  IN IF current_user.kind # "Ok" THEN Err(current_user.kind)
     ELSE handle(us, fs, current_user.val, username)

(* ------------------------------ Tag Store ----------------------------- *)

\* .limit(5)
ListLimit == 5

\* struct NewTag
NewTag == [name : TagNames, article_id : RequestArticles]

\* Tag::list: the first rows of the whole table, in the order of the heap
\* (the order of insertion: the query has no ORDER BY and rows are never
\* updated or deleted)
Tag_list(ts) ==
  Ok(SubSeq(ts, 1, IF Len(ts) < ListLimit THEN Len(ts) ELSE ListLimit))

\* Tag::create: one insert of all the records, the inserted rows returned
\* in the order of the records; a refused insert (an article_id that is no
\* article) panics in expect() and inserts nothing
Tag_create(ts, records) ==
  IF \E i \in 1..Len(records) : records[i].article_id \notin Articles
  THEN [tags |-> ts, kind |-> "Panic", val |-> <<>>]
  ELSE LET rows == [i \in 1..Len(records) |->
                     [id |-> Len(ts) + i,
                      article_id |-> records[i].article_id,
                      name |-> records[i].name]]
       IN [tags |-> ts \o rows, kind |-> "Ok", val |-> rows]

(* ------------------------------ actions ------------------------------- *)

Idle == [op |-> "idle"]

Init ==
  /\ users = <<>>
  /\ follows = EmptyBag
  /\ tags = <<>>
  /\ pc = [w \in Workers |-> Idle]
  /\ last = [op |-> "init", kind |-> "Ok"]

SignupOf(email, username, naive_password, salt, key_ok) ==
  LET r == signup(users, email, username, naive_password, salt, key_ok)
  IN /\ users' = r.users
     /\ \E k \in r.kinds :
          last' = [op |-> "signup", kind |-> k, email |-> email,
                   username |-> username, password |-> naive_password]
     /\ UNCHANGED <<follows, tags, pc>>

Signup ==
  \E email \in Emails, username \in Usernames, naive_password \in Passwords,
     salt \in Salts, key_ok \in BOOLEAN :
    SignupOf(email, username, naive_password, salt, key_ok)

SigninOf(email, naive_password, key_ok) ==
  LET r == signin(users, email, naive_password, key_ok)
  IN /\ last' = [op |-> "signin", kind |-> r.kind, email |-> email,
                 password |-> naive_password, user |-> r.val]
     /\ UNCHANGED <<users, follows, tags, pc>>

Signin ==
  \E email \in Emails, naive_password \in Passwords, key_ok \in BOOLEAN :
    SigninOf(email, naive_password, key_ok)

UpdateOf(user_id, changeset) ==
  LET r == update(users, user_id, changeset)
  IN /\ users' = r.users
     /\ \E k \in r.kinds :
          last' = [op |-> "update", kind |-> k, user_id |-> user_id,
                   changeset |-> changeset]
     /\ UNCHANGED <<follows, tags, pc>>

Update ==
  \E user_id \in 1..Cardinality(Emails), changeset \in UpdateInputs :
    UpdateOf(user_id, changeset)

NextUser == Signup \/ Signin \/ Update

SpecUser == Init /\ [][NextUser]_vars

\* the users table after two signups
TwoUsers ==
  signup(signup(<<>>, 1, 1, <<1>>, 1, TRUE).users, 2, 2, <<1>>, 1, TRUE).users

InitFollow ==
  /\ users = TwoUsers
  /\ follows = EmptyBag
  /\ tags = <<>>
  /\ pc = [w \in Workers |-> Idle]
  /\ last = [op |-> "init", kind |-> "Ok"]

Viewers == Opt(UserIdx(users))

BeginOf(w, op, viewer, username, conn_ok) ==
  LET r == begin(users, viewer, username, conn_ok)
  IN /\ pc[w] = Idle
     /\ IF r.kind = "Ok"
        THEN /\ pc' = [pc EXCEPT ![w] = [op |-> op, self |-> r.val.self,
                                          followee |-> r.val.followee]]
             /\ UNCHANGED last
        ELSE /\ last' = [op |-> op, kind |-> r.kind, viewer |-> viewer,
                         followee |-> None, profile |-> None, deleted |-> 0]
             /\ UNCHANGED pc
     /\ UNCHANGED <<users, follows, tags>>

FollowBegin ==
  \E w \in Workers, viewer \in Viewers, username \in PathNames,
     conn_ok \in BOOLEAN :
    BeginOf(w, "follow", viewer, username, conn_ok)

UnfollowBegin ==
  \E w \in Workers, viewer \in Viewers, username \in PathNames,
     conn_ok \in BOOLEAN :
    BeginOf(w, "unfollow", viewer, username, conn_ok)

FollowCreate ==
  \E w \in Workers :
    /\ pc[w].op = "follow"
    /\ LET r == follow(follows, pc[w].self, pc[w].followee)
       IN /\ follows' = r.follows
          /\ last' = [op |-> "follow", kind |-> r.kind,
                      viewer |-> Some(pc[w].self.id),
                      followee |-> Some(pc[w].followee.id),
                      profile |-> r.profile, deleted |-> 0]
    /\ pc' = [pc EXCEPT ![w] = Idle]
    /\ UNCHANGED <<users, tags>>

UnfollowDelete ==
  \E w \in Workers :
    /\ pc[w].op = "unfollow"
    /\ LET r == unfollow(follows, pc[w].self, pc[w].followee)
       IN /\ follows' = r.follows
          /\ last' = [op |-> "unfollow", kind |-> r.kind,
                      viewer |-> Some(pc[w].self.id),
                      followee |-> Some(pc[w].followee.id),
                      profile |-> r.profile, deleted |-> r.deleted]
    /\ pc' = [pc EXCEPT ![w] = Idle]
    /\ UNCHANGED <<users, tags>>

Show ==
  \E viewer \in Viewers, username \in PathNames :
    LET r == show(users, follows, viewer, username)
    IN /\ last' = [op |-> "show", kind |-> r.kind, viewer |-> viewer,
                    username |-> username, profile |-> r.val]
       /\ UNCHANGED <<users, follows, tags, pc>>

NextFollow ==
  FollowBegin \/ FollowCreate \/ UnfollowBegin \/ UnfollowDelete \/ Show

SpecFollow == InitFollow /\ [][NextFollow]_vars

SeqsUpTo(S, n) == UNION {[1..k -> S] : k \in 0..n}

TagCreate ==
  \E records \in SeqsUpTo(NewTag, MaxNewTags) :
    /\ Len(tags) + Len(records) <= MaxTagRows
    /\ LET r == Tag_create(tags, records)
       IN /\ tags' = r.tags
          /\ last' = [op |-> "create", kind |-> r.kind, records |-> records,
                      result |-> r.val]
    /\ UNCHANGED <<users, follows, pc>>

TagList ==
  /\ last' = [op |-> "list", kind |-> Tag_list(tags).kind,
              result |-> Tag_list(tags).val]
  /\ UNCHANGED <<users, follows, tags, pc>>

NextTag == TagCreate \/ TagList

SpecTag == Init /\ [][NextTag]_vars

(* ------------------------- claims: User Directory --------------------- *)

HasherAccepts(p) == \A s \in Salts : hash_password(p, s).kind = "Ok"

\* C3 (as claimed): a signin for an email no user has, and a signin with a
\* wrong password for an existing email, both fail with InvalidCredentials.
C3_SigninSameErrorKind ==
  last.op = "signin" =>
    /\ (by_email(users, last.email) = {} => last.kind = "InvalidCredentials")
    /\ (\A i \in by_email(users, last.email) :
          verify(last.password, users[i].password).kind # "Ok"
            => last.kind = "InvalidCredentials")

\* C4 (as claimed): a signup with a taken email and a fresh username fails
\* with DuplicateEmail, one with a taken username and a fresh email fails with
\* DuplicateUsername, and neither adds a row.
C4_DuplicateKinds_Original ==
  [][last'.op = "signup" =>
       /\ (/\ by_email(users, last'.email) # {}
           /\ by_username(users, last'.username) = {})
            => (last'.kind = "DuplicateEmail" /\ users' = users)
       /\ (/\ by_username(users, last'.username) # {}
           /\ by_email(users, last'.email) = {})
            => (last'.kind = "DuplicateUsername" /\ users' = users)]_vars

\* C4 (amended): the same, for a signup whose password the hasher accepts;
\* a signup whose password the hasher rejects fails with the hasher's error
\* before the insert is tried, and adds no row either.
C4_DuplicateKinds ==
  [][last'.op = "signup" =>
       /\ (/\ HasherAccepts(last'.password)
           /\ by_email(users, last'.email) # {}
           /\ by_username(users, last'.username) = {})
            => (last'.kind = "DuplicateEmail" /\ users' = users)
       /\ (/\ HasherAccepts(last'.password)
           /\ by_username(users, last'.username) # {}
           /\ by_email(users, last'.email) = {})
            => (last'.kind = "DuplicateUsername" /\ users' = users)
       /\ (/\ ~HasherAccepts(last'.password)
           /\ (by_email(users, last'.email) # {}
                 \/ by_username(users, last'.username) # {}))
            => (last'.kind = "CredentialError" /\ users' = users)]_vars

C4_Witness ==
  /\ last.op = "signup"
  /\ last.kind = "DuplicateEmail"
  /\ HasherAccepts(last.password)
  /\ by_email(users, last.email) # {}
  /\ by_username(users, last.username) = {}

\* C8 (as claimed): after a successful signup or update that carried a
\* plaintext password for a user, that user's stored password is not that
\* plaintext; and the user a successful signin returns does not hold the
\* plaintext that was sent.
C8_NoPlaintextStored ==
  /\ (last.op = "signup" /\ last.kind \in {"Ok", "TokenError"})
       => users[Len(users)].password # last.password
  /\ (last.op = "update" /\ last.kind = "Ok"
        /\ last.changeset.password # None)
       => users[last.user_id].password # last.changeset.password[1]
  /\ (last.op = "signin" /\ last.kind = "Ok")
       => last.user.password # last.password

\* C9: an update leaves every row but the target's alone, and in the target
\* row every field the changeset does not provide (the id too) keeps its value.
C9_UpdateFrame ==
  [][last'.op = "update" =>
       /\ Len(users') = Len(users)
       /\ \A i \in UserIdx(users) :
            /\ i # last'.user_id => users'[i] = users[i]
            /\ users'[i].id = users[i].id
            /\ \A f \in UpdateFields \ Provided(last'.changeset) :
                 users'[i][f] = users[i][f]]_vars

C9_Witness ==
  /\ last.op = "update"
  /\ last.kind = "Ok"
  /\ Len(users) = 2
  /\ Provided(last.changeset) = {"email"}
  /\ users[last.user_id].bio # None
  /\ users[last.user_id].email = last.changeset.email[1]

(* --------------------------- claims: Follow Graph --------------------- *)

\* C1: right after a successful follow(A,B), is_following(A,B) is true, and
\* right after a successful unfollow(A,B) it is false.
C1_FollowThenIsFollowing ==
  /\ (last.op = "follow" /\ last.kind = "Ok")
       => is_following(follows, users[last.viewer[1]], last.followee[1])
  /\ (last.op = "unfollow" /\ last.kind = "Ok")
       => ~is_following(follows, users[last.viewer[1]], last.followee[1])

C1_Witness ==
  /\ last.op = "follow"
  /\ last.kind = "Ok"
  /\ last.viewer # last.followee
  /\ BagCardinality(follows) >= 2
  /\ is_following(follows, users[last.viewer[1]], last.followee[1])

\* C2: whatever the interleaving of follow and unfollow requests, follows
\* holds at most one row per (follower_id, followee_id) pair.
C2_AtMostOneEdgePerPair ==
  \A e \in BagToSet(follows) : CopiesIn(e, follows) <= 1

\* two follow requests for the same pair in flight: one has inserted the
\* edge, the other has found its followee and is about to insert
C2_Witness ==
  /\ last.op = "follow"
  /\ last.kind = "Ok"
  /\ \E w \in Workers :
       /\ pc[w].op = "follow"
       /\ Some(pc[w].self.id) = last.viewer
       /\ Some(pc[w].followee.id) = last.followee
       /\ BagIn(Edge(pc[w].self.id, pc[w].followee.id), follows)

\* C5: the insert of a follow(A,B) whose edge is already there fails with
\* AlreadyFollowing and leaves follows as it was.
C5_AlreadyFollowing ==
  [][\A w \in Workers :
       (/\ pc[w].op = "follow"
        /\ pc'[w] = Idle
        /\ BagIn(Edge(pc[w].self.id, pc[w].followee.id), follows))
         => (/\ last'.op = "follow"
             /\ last'.kind = "AlreadyFollowing"
             /\ follows' = follows)]_vars

C5_Witness ==
  /\ last.op = "follow"
  /\ last.kind = "AlreadyFollowing"
  /\ BagIn(Edge(last.viewer[1], last.followee[1]), follows)

\* C6: the delete of an unfollow(A,B) for which no edge (A,B) exists, B an
\* existing user, succeeds and leaves follows as it was.
C6_UnfollowAbsentEdge ==
  [][\A w \in Workers :
       (/\ pc[w].op = "unfollow"
        /\ pc'[w] = Idle
        /\ ~BagIn(Edge(pc[w].self.id, pc[w].followee.id), follows))
         => (/\ last'.op = "unfollow"
             /\ last'.kind = "Ok"
             /\ follows' = follows)]_vars

C6_Witness ==
  /\ last.op = "unfollow"
  /\ last.kind = "Ok"
  /\ last.deleted = 0
  /\ follows # EmptyBag

\* C7 (as claimed): for an existing subject, show produces a Profile whose
\* following is true exactly when a viewer is present and the edge
\* (viewer, subject) exists; with no viewer the Profile has following false.
C7_ProfileForEveryViewer ==
  (last.op = "show" /\ by_username(users, last.username) # {}) =>
    /\ last.kind = "Ok"
    /\ last.profile.following =
         (/\ last.viewer # None
          /\ \E i \in by_username(users, last.username) :
               BagIn(Edge(last.viewer[1], users[i].id), follows))

(* ---------------------------- claims: Tag Store ----------------------- *)

Names(rows) == [i \in 1..Len(rows) |-> rows[i].name]

TagsOf(article) == SelectSeq(tags, LAMBDA t : t.article_id = article)

\* C10 (as claimed): after the tags of an article that had none are created
\* from a sequence of names, listing returns exactly those names in input
\* order, whatever tags other articles hold; an empty sequence lists empty.
C10_CreateThenList ==
  (last.op = "create" /\ last.kind = "Ok") =>
    \A a \in Articles :
      (/\ \A i \in 1..Len(last.records) : last.records[i].article_id = a
       /\ Len(TagsOf(a)) = Len(last.records))
        => Names(Tag_list(tags).val) = Names(last.records)

====
